---- MODULE Spec2Model ----
(***************************************************************************)
(* Model of StreamDeckBase (src/src/models/base.ts): the packet framer,    *)
(* the input-report handler, the public fill / clear / brightness / reset  *)
(* / query operations, close() and the process-exit hook.                  *)
(*                                                                         *)
(* Buffers are sequences of bytes; the code's 0-based index i is position  *)
(* i + 1 of the sequence.                                                  *)
(***************************************************************************)
EXTENDS Integers, Sequences, FiniteSets, TLC

VARIABLES
    props,           \* deviceProperties, plus the subclass's packet length
    options,         \* OpenStreamDeckOptions
    keyState,        \* this.keyState
    hookRegistered,  \* the exit-hook callback is still registered
    deviceClosed,    \* the HID handle has been closed
    closeCalls,      \* number of device.close() invocations so far
    closeInvocations,\* number of explicit close() calls so far
    exited,          \* the process has exited
    op,              \* the last operation and its arguments
    result,          \* "ok" or the error the last operation threw
    ret,             \* the value the last operation returned
    calls,           \* the transport calls the last operation made, in order
    events           \* the events the last operation emitted, in order

vars == <<props, options, keyState, hookRegistered, deviceClosed, closeCalls,
          closeInvocations, exited, op, result, ret, calls, events>>

----------------------------------------------------------------------------
(* Bounds *)

MaxColumns == 2
MaxRows == 2
MaxIconSize == 2
MaxPayloadSize == 3     \* largest MAX_PAYLOAD_SIZE (packet length - header)
MaxBufferLen == 7       \* longest payload handed directly to the framer
MaxFailAt == 2          \* the transport may fail at its 1st .. MaxFailAt-th call
MaxCloses == 2          \* explicit close() calls per run

----------------------------------------------------------------------------
(* Small helpers *)

Min(a, b) == IF a <= b THEN a ELSE b

Zeros(n) == [i \in 1..n |-> 0]

\* A buffer of len bytes with position-dependent contents (input generator).
Pattern(len, seed) == [i \in 1..len |-> (seed + 3 * (i - 1)) % 256]

Seeds == {0, 254}

RECURSIVE Flatten(_)
Flatten(ss) == IF ss = <<>> THEN <<>> ELSE Head(ss) \o Flatten(Tail(ss))

----------------------------------------------------------------------------
(* Device geometry *)

KEY_COLUMNS == props.COLUMNS
KEY_ROWS == props.ROWS
NUM_KEYS == KEY_COLUMNS * KEY_ROWS
ICON_SIZE == props.ICON_SIZE
ICON_PIXELS == ICON_SIZE * ICON_SIZE
ICON_BYTES == ICON_PIXELS * 3

Keys == 0..(NUM_KEYS - 1)

\* Mutant: the mirrored column is off by one (wrapping within the row).
transformKeyIndex_ColumnOffByOne(keyIndex) ==
    IF props.KEY_DIRECTION = "ltr"
    THEN keyIndex
    ELSE LET row == keyIndex \div KEY_COLUMNS
             col == keyIndex % KEY_COLUMNS
         IN  row * KEY_COLUMNS + ((KEY_COLUMNS - col) % KEY_COLUMNS)

\* The subclass's key mapping: row = i / C, col = i % C, the column is
\* mirrored when the key direction is rtl.
transformKeyIndex(keyIndex) ==
    IF props.KEY_DIRECTION = "ltr"
    THEN keyIndex
    ELSE LET row == keyIndex \div KEY_COLUMNS
             col == keyIndex % KEY_COLUMNS
         IN  row * KEY_COLUMNS + (KEY_COLUMNS - 1 - col)

----------------------------------------------------------------------------
(* Packet framer *)

getFillImageCommandHeaderLength == 16

getFillImagePacketLength == props.PACKET_LENGTH

\* Mutant: the final-part flag is never set.
writeFillImageCommandHeader_NoLastFlag(buffer, keyIndex, partIndex, isLast, bodyLength) ==
    [i \in 1..Len(buffer) |->
        CASE i = 1 -> 2
          [] i = 2 -> 1
          [] i = 3 -> partIndex % 256
          [] i = 4 -> (partIndex \div 256) % 256
          [] i = 5 -> 0
          [] i = 6 -> keyIndex + 1
          [] OTHER -> buffer[i]]

\* The header writes into a packet.
writeFillImageCommandHeader(buffer, keyIndex, partIndex, isLast, bodyLength) ==
    [i \in 1..Len(buffer) |->
        CASE i = 1 -> 2
          [] i = 2 -> 1
          [] i = 3 -> partIndex % 256
          [] i = 4 -> (partIndex \div 256) % 256
          [] i = 5 -> IF isLast THEN 1 ELSE 0
          [] i = 6 -> keyIndex + 1
          [] OTHER -> buffer[i]]

\* Mutant: the copy starts one byte late in the source.
BufferCopy_SourceOffByOne(source, target, targetStart, sourceStart, sourceEnd) ==
    [i \in 1..Len(target) |->
        IF i - 1 >= targetStart /\ i - 1 < targetStart + (sourceEnd - sourceStart)
        THEN IF (i - 1 - targetStart) + sourceStart + 2 <= Len(source)
             THEN source[(i - 1 - targetStart) + sourceStart + 2]
             ELSE 0
        ELSE target[i]]

\* byteBuffer.copy(packet, targetStart, sourceStart, sourceEnd)
BufferCopy(source, target, targetStart, sourceStart, sourceEnd) ==
    [i \in 1..Len(target) |->
        IF i - 1 >= targetStart /\ i - 1 < targetStart + (sourceEnd - sourceStart)
        THEN source[(i - 1 - targetStart) + sourceStart + 1]
        ELSE target[i]]

\* The for loop of generateFillImageWrites, one iteration per call.
RECURSIVE FillImageWritesLoop(_, _, _, _, _)
FillImageWritesLoop(keyIndex, byteBuffer, remainingBytes, part, acc) ==
    IF remainingBytes > 0
    THEN LET MAX_PACKET_SIZE == getFillImagePacketLength
             PACKET_HEADER_LENGTH == getFillImageCommandHeaderLength
             MAX_PAYLOAD_SIZE == MAX_PACKET_SIZE - PACKET_HEADER_LENGTH
             byteCount == Min(remainingBytes, MAX_PAYLOAD_SIZE)
             header == writeFillImageCommandHeader(Zeros(MAX_PACKET_SIZE), keyIndex, part,
                                                   remainingBytes <= MAX_PAYLOAD_SIZE, byteCount)
             byteOffset == Len(byteBuffer) - remainingBytes
             packet == BufferCopy(byteBuffer, header, PACKET_HEADER_LENGTH,
                                  byteOffset, byteOffset + byteCount)
         IN  FillImageWritesLoop(keyIndex, byteBuffer, remainingBytes - byteCount,
                                 part + 1, Append(acc, packet))
    ELSE acc

generateFillImageWrites(keyIndex, byteBuffer) ==
    FillImageWritesLoop(keyIndex, byteBuffer, Len(byteBuffer), 0, <<>>)

----------------------------------------------------------------------------
(* Image conversion *)

Formats == {"rgb", "rgba", "bgr", "bgra"}

\* sourceFormat.length
FormatLength(format) == IF format \in {"rgb", "bgr"} THEN 3 ELSE 4

\* options?.format ?? 'rgb'
SourceFormat(format) == IF format = "undefined" THEN "rgb" ELSE format

\* The subclass's converter, simple strategy: the S x S region of the source
\* at (offset, stride) is copied pixel by pixel into rgb order, dropping alpha.
convertFillImage(imageBuffer, format, offset, stride) ==
    [i \in 1..ICON_BYTES |->
        LET pixel == (i - 1) \div 3
            channel == (i - 1) % 3
            y == pixel \div ICON_SIZE
            x == pixel % ICON_SIZE
            srcChannel == IF format \in {"bgr", "bgra"} THEN 2 - channel ELSE channel
        IN  imageBuffer[offset + y * stride + x * FormatLength(format) + srcChannel + 1]]

----------------------------------------------------------------------------
(* Transport: the HID handle.  A write or feature-report call throws when   *)
(* the handle is closed, or when it is the failAt-th transport call of the  *)
(* running operation (failAt = 0: the transport does not fail).             *)

Outcome(res, cs) == [result |-> res, calls |-> cs]

WriteCall(packet) == [call |-> "write", data |-> packet]
SendFeatureReportCall(buffer) == [call |-> "sendFeatureReport", data |-> buffer]
GetFeatureReportCall(reportId, reportLength) ==
    [call |-> "getFeatureReport", data |-> <<reportId, reportLength>>]
CloseCall == [call |-> "close", data |-> <<>>]

\* The I/O calls cs are issued in order until one throws; done is the number
\* of transport calls the running operation has made before them.
DeviceIO(cs, failAt, done) ==
    LET firstFail == IF cs = <<>> THEN 0
                     ELSE IF deviceClosed THEN 1
                     ELSE IF failAt - done \in 1..Len(cs) THEN failAt - done
                     ELSE 0
    IN  IF firstFail = 0 THEN Outcome("ok", cs)
        ELSE Outcome("TransportError", SubSeq(cs, 1, firstFail))

----------------------------------------------------------------------------
(* Validation *)

checkValidKeyIndex(keyIndex) == ~(keyIndex < 0 \/ keyIndex >= NUM_KEYS)

\* Mutant: the upper limit is off by one.
checkRGBValue_OffByOne(value) == ~(value < 0 \/ value > 256)

checkRGBValue(value) == ~(value < 0 \/ value > 255)

checkSourceFormat(format) == format \in {"rgb", "rgba", "bgr", "bgra"}

----------------------------------------------------------------------------
(* Write path *)

\* Mutant: the packets of a key are written last to first.
fillImageRange_ReversedWrites(keyIndex, imageBuffer, format, offset, stride, failAt, done) ==
    IF ~checkValidKeyIndex(keyIndex) THEN Outcome("InvalidIndex", <<>>)
    ELSE LET byteBuffer == convertFillImage(imageBuffer, format, offset, stride)
             packets == generateFillImageWrites(keyIndex, byteBuffer)
         IN  DeviceIO([i \in 1..Len(packets) |-> WriteCall(packets[Len(packets) + 1 - i])],
                      failAt, done)

fillImageRange(keyIndex, imageBuffer, format, offset, stride, failAt, done) ==
    IF ~checkValidKeyIndex(keyIndex) THEN Outcome("InvalidIndex", <<>>)
    ELSE LET byteBuffer == convertFillImage(imageBuffer, format, offset, stride)
             packets == generateFillImageWrites(keyIndex, byteBuffer)
         IN  DeviceIO([i \in 1..Len(packets) |-> WriteCall(packets[i])], failAt, done)

fillColor(keyIndex, r, g, b, failAt, done) ==
    IF ~checkValidKeyIndex(keyIndex) THEN Outcome("InvalidIndex", <<>>)
    ELSE IF ~checkRGBValue(r) \/ ~checkRGBValue(g) \/ ~checkRGBValue(b)
    THEN Outcome("InvalidColorComponent", <<>>)
    ELSE LET rgb == <<r, g, b>>
             pixels == [i \in 1..ICON_BYTES |-> rgb[((i - 1) % 3) + 1]]
             keyIndex2 == transformKeyIndex(keyIndex)
         IN  fillImageRange(keyIndex2, pixels, "rgb", 0, ICON_SIZE * 3, failAt, done)

\* Mutant: a buffer longer than the image is accepted.
fillImage_AcceptsLonger(keyIndex, imageBuffer, format, failAt, done) ==
    IF ~checkValidKeyIndex(keyIndex) THEN Outcome("InvalidIndex", <<>>)
    ELSE LET sourceFormat == SourceFormat(format) IN
         IF ~checkSourceFormat(sourceFormat) THEN Outcome("UnknownFormat", <<>>)
         ELSE LET imageSize == ICON_PIXELS * FormatLength(sourceFormat) IN
              IF Len(imageBuffer) < imageSize THEN Outcome("InvalidImageLength", <<>>)
              ELSE LET keyIndex2 == transformKeyIndex(keyIndex)
                   IN  fillImageRange(keyIndex2, imageBuffer, sourceFormat, 0,
                                      ICON_SIZE * FormatLength(sourceFormat), failAt, done)

fillImage(keyIndex, imageBuffer, format, failAt, done) ==
    IF ~checkValidKeyIndex(keyIndex) THEN Outcome("InvalidIndex", <<>>)
    ELSE LET sourceFormat == SourceFormat(format) IN
         IF ~checkSourceFormat(sourceFormat) THEN Outcome("UnknownFormat", <<>>)
         ELSE LET imageSize == ICON_PIXELS * FormatLength(sourceFormat) IN
              IF Len(imageBuffer) # imageSize THEN Outcome("InvalidImageLength", <<>>)
              ELSE LET keyIndex2 == transformKeyIndex(keyIndex)
                   IN  fillImageRange(keyIndex2, imageBuffer, sourceFormat, 0,
                                      ICON_SIZE * FormatLength(sourceFormat), failAt, done)

\* Mutant: the key direction is ignored when choosing the key.
RECURSIVE FillPanelLoop_IgnoresDirection(_, _, _, _, _)
FillPanelLoop_IgnoresDirection(imageBuffer, sourceFormat, n, failAt, acc) ==
    IF n >= KEY_ROWS * KEY_COLUMNS THEN Outcome("ok", acc)
    ELSE LET row == n \div KEY_COLUMNS
             column == n % KEY_COLUMNS
             iconSize == ICON_SIZE * FormatLength(sourceFormat)
             stride == iconSize * KEY_COLUMNS
             rowOffset == stride * row * ICON_SIZE
             index == row * KEY_COLUMNS + column
             colOffset == column * iconSize
             out == fillImageRange(index, imageBuffer, sourceFormat,
                                   rowOffset + colOffset, stride, failAt, Len(acc))
         IN  IF out.result # "ok" THEN Outcome(out.result, acc \o out.calls)
             ELSE FillPanelLoop_IgnoresDirection(imageBuffer, sourceFormat, n + 1, failAt,
                                                 acc \o out.calls)

\* The nested row / column loops of fillPanel, flattened: step n handles
\* row = n / KEY_COLUMNS, column = n % KEY_COLUMNS.  A throw ends the loops.
RECURSIVE FillPanelLoop(_, _, _, _, _)
FillPanelLoop(imageBuffer, sourceFormat, n, failAt, acc) ==
    IF n >= KEY_ROWS * KEY_COLUMNS THEN Outcome("ok", acc)
    ELSE LET row == n \div KEY_COLUMNS
             column == n % KEY_COLUMNS
             iconSize == ICON_SIZE * FormatLength(sourceFormat)
             stride == iconSize * KEY_COLUMNS
             rowOffset == stride * row * ICON_SIZE
             index == IF props.KEY_DIRECTION = "ltr"
                      THEN row * KEY_COLUMNS + column
                      ELSE row * KEY_COLUMNS + (KEY_COLUMNS - column - 1)
             colOffset == column * iconSize
             out == fillImageRange(index, imageBuffer, sourceFormat,
                                   rowOffset + colOffset, stride, failAt, Len(acc))
         IN  IF out.result # "ok" THEN Outcome(out.result, acc \o out.calls)
             ELSE FillPanelLoop(imageBuffer, sourceFormat, n + 1, failAt, acc \o out.calls)

fillPanel(imageBuffer, format, failAt) ==
    LET sourceFormat == SourceFormat(format) IN
    IF ~checkSourceFormat(sourceFormat) THEN Outcome("UnknownFormat", <<>>)
    ELSE LET imageSize == ICON_PIXELS * FormatLength(sourceFormat) * NUM_KEYS IN
         IF Len(imageBuffer) # imageSize THEN Outcome("InvalidImageLength", <<>>)
         ELSE FillPanelLoop(imageBuffer, sourceFormat, 0, failAt, <<>>)

clearKey(keyIndex, failAt, done) ==
    IF ~checkValidKeyIndex(keyIndex) THEN Outcome("InvalidIndex", <<>>)
    ELSE fillColor(keyIndex, 0, 0, 0, failAt, done)

\* Mutant: the loop stops one key early.
RECURSIVE ClearAllKeysLoop_SkipsLast(_, _, _)
ClearAllKeysLoop_SkipsLast(keyIndex, failAt, acc) ==
    IF keyIndex < NUM_KEYS - 1
    THEN LET out == clearKey(keyIndex, failAt, Len(acc))
         IN  IF out.result # "ok" THEN Outcome(out.result, acc \o out.calls)
             ELSE ClearAllKeysLoop_SkipsLast(keyIndex + 1, failAt, acc \o out.calls)
    ELSE Outcome("ok", acc)

RECURSIVE ClearAllKeysLoop(_, _, _)
ClearAllKeysLoop(keyIndex, failAt, acc) ==
    IF keyIndex < NUM_KEYS
    THEN LET out == clearKey(keyIndex, failAt, Len(acc))
         IN  IF out.result # "ok" THEN Outcome(out.result, acc \o out.calls)
             ELSE ClearAllKeysLoop(keyIndex + 1, failAt, acc \o out.calls)
    ELSE Outcome("ok", acc)

clearAllKeys(failAt) == ClearAllKeysLoop(0, failAt, <<>>)

BrightnessCommandBuffer(percentage) ==
    <<5, 85, 170, 209, 1, percentage, 0, 0, 0, 0, 0, 0, 0, 0, 0, 0, 0>>

\* Mutant: the upper limit is not checked.
setBrightness_NoUpperLimit(percentage, failAt) ==
    IF percentage < 0 THEN Outcome("InvalidRange", <<>>)
    ELSE DeviceIO(<<SendFeatureReportCall(BrightnessCommandBuffer(percentage))>>, failAt, 0)

setBrightness(percentage, failAt) ==
    IF percentage < 0 \/ percentage > 100 THEN Outcome("InvalidRange", <<>>)
    ELSE DeviceIO(<<SendFeatureReportCall(BrightnessCommandBuffer(percentage))>>, failAt, 0)

ResetCommandBuffer == <<11, 99, 0, 0, 0, 0, 0, 0, 0, 0, 0, 0, 0, 0, 0, 0, 0>>

resetToLogo(failAt) == DeviceIO(<<SendFeatureReportCall(ResetCommandBuffer)>>, failAt, 0)

----------------------------------------------------------------------------
(* Feature-report queries *)

\* Decodes a byte array as text; a string is kept as its character codes.
numberArrayToString(array) == array

\* array.slice(start, end) for 0 <= start, end
Slice(array, start, end) ==
    LET e == Min(end, Len(array))
    IN  IF start >= e THEN <<>> ELSE SubSeq(array, start + 1, e)

getFirmwareVersion(response, failAt) ==
    LET io == DeviceIO(<<GetFeatureReportCall(4, 17)>>, failAt, 0)
    IN  [result |-> io.result, calls |-> io.calls,
         ret |-> IF io.result = "ok"
                 THEN numberArrayToString(Slice(response, 5, Len(response)))
                 ELSE <<>>]

getSerialNumber(response, failAt) ==
    LET io == DeviceIO(<<GetFeatureReportCall(3, 17)>>, failAt, 0)
    IN  [result |-> io.result, calls |-> io.calls,
         ret |-> IF io.result = "ok"
                 THEN numberArrayToString(Slice(response, 5, 17))
                 ELSE <<>>]

----------------------------------------------------------------------------
(* close() and the exit hook *)

\* releaseExitHook() has already run when this is evaluated; the outcome
\* ends with the device.close() call unless resetToLogo() threw.
close(failAt) ==
    LET reset == IF options.resetToLogoOnExit THEN resetToLogo(failAt)
                 ELSE Outcome("ok", <<>>)
    IN  IF reset.result # "ok" THEN reset
        ELSE Outcome("ok", Append(reset.calls, CloseCall))

ReachedDeviceClose(out) == out.calls # <<>> /\ out.calls[Len(out.calls)] = CloseCall

----------------------------------------------------------------------------
(* Input reports *)

\* Mutant: the trailing byte is not stripped.
StripReport_KeepsLastByte(data) == Slice(data, props.KEY_DATA_OFFSET, Len(data))

\* data.slice(KEY_DATA_OFFSET, data.length - 1)
StripReport(data) ==
    LET end == IF Len(data) = 0 THEN 0 ELSE Len(data) - 1
    IN  Slice(data, props.KEY_DATA_OFFSET, end)

\* Mutant: only the byte value 1 counts as pressed.
KeyPressed_OnlyOne(data, i) == i < Len(data) /\ data[i + 1] = 1

\* Boolean(data[i]); data[i] is undefined past the end of the buffer
KeyPressed(data, i) == i < Len(data) /\ data[i + 1] # 0

\* Mutant: an event is emitted whether or not the key's state changed.
RECURSIVE DataLoop_NoChangeCheck(_, _, _)
DataLoop_NoChangeCheck(data, i, st) ==
    IF i < NUM_KEYS
    THEN LET keyPressed == KeyPressed(data, i)
             keyIndex == transformKeyIndex(i)
         IN  DataLoop_NoChangeCheck(data, i + 1,
                << [st[1] EXCEPT ![keyIndex] = keyPressed],
                   Append(st[2], [event |-> IF keyPressed THEN "down" ELSE "up",
                                  keyIndex |-> keyIndex]) >>)
    ELSE st

\* Mutant: the keys are visited from the last native index down.
RECURSIVE DataLoop_Descending(_, _, _)
DataLoop_Descending(data, i, st) ==
    IF i < NUM_KEYS
    THEN LET native == NUM_KEYS - 1 - i
             keyPressed == KeyPressed(data, native)
             keyIndex == transformKeyIndex(native)
             stateChanged == keyPressed # st[1][keyIndex]
         IN  IF stateChanged
             THEN DataLoop_Descending(data, i + 1,
                    << [st[1] EXCEPT ![keyIndex] = keyPressed],
                       Append(st[2], [event |-> IF keyPressed THEN "down" ELSE "up",
                                      keyIndex |-> keyIndex]) >>)
             ELSE DataLoop_Descending(data, i + 1, st)
    ELSE st

\* The for loop of the 'data' handler; st is <<keyState, emitted events>>.
RECURSIVE DataLoop(_, _, _)
DataLoop(data, i, st) ==
    IF i < NUM_KEYS
    THEN LET keyPressed == KeyPressed(data, i)
             keyIndex == transformKeyIndex(i)
             stateChanged == keyPressed # st[1][keyIndex]
         IN  IF stateChanged
             THEN DataLoop(data, i + 1,
                    << [st[1] EXCEPT ![keyIndex] = keyPressed],
                       Append(st[2], [event |-> IF keyPressed THEN "down" ELSE "up",
                                      keyIndex |-> keyIndex]) >>)
             ELSE DataLoop(data, i + 1, st)
    ELSE st

onData(report) == DataLoop(StripReport(report), 0, <<keyState, <<>>>>)

----------------------------------------------------------------------------
(* Actions: one per operation or handler *)

\* Mutant: a write operation clears the stored key states.
WritePathFrame_ResetsKeyState ==
    /\ keyState' = [k \in Keys |-> FALSE]
    /\ UNCHANGED <<props, options, hookRegistered, deviceClosed,
                   closeCalls, closeInvocations, exited>>

WritePathFrame == UNCHANGED <<props, options, keyState, hookRegistered, deviceClosed,
                              closeCalls, closeInvocations, exited>>

\* A void operation on the write path, with its outcome.
Record(name, args, out) ==
    /\ ~exited
    /\ op' = [name |-> name, args |-> args]
    /\ result' = out.result
    /\ calls' = out.calls
    /\ ret' = <<>>
    /\ events' = <<>>
    /\ WritePathFrame

FillColor(keyIndex, r, g, b, failAt) ==
    Record("fillColor", <<keyIndex, r, g, b>>, fillColor(keyIndex, r, g, b, failAt, 0))

FillImage(keyIndex, imageBuffer, format, failAt) ==
    Record("fillImage", <<keyIndex, imageBuffer, format>>,
           fillImage(keyIndex, imageBuffer, format, failAt, 0))

FillPanel(imageBuffer, format, failAt) ==
    Record("fillPanel", <<imageBuffer, format>>, fillPanel(imageBuffer, format, failAt))

ClearKey(keyIndex, failAt) ==
    Record("clearKey", <<keyIndex>>, clearKey(keyIndex, failAt, 0))

ClearAllKeys(failAt) ==
    Record("clearAllKeys", <<>>, clearAllKeys(failAt))

SetBrightness(percentage, failAt) ==
    Record("setBrightness", <<percentage>>, setBrightness(percentage, failAt))

ResetToLogo(failAt) ==
    Record("resetToLogo", <<>>, resetToLogo(failAt))

GetFirmwareVersion(response, failAt) ==
    LET out == getFirmwareVersion(response, failAt)
    IN  /\ ~exited
        /\ op' = [name |-> "getFirmwareVersion", args |-> <<>>]
        /\ result' = out.result
        /\ calls' = out.calls
        /\ ret' = out.ret
        /\ events' = <<>>
        /\ WritePathFrame

GetSerialNumber(response, failAt) ==
    LET out == getSerialNumber(response, failAt)
    IN  /\ ~exited
        /\ op' = [name |-> "getSerialNumber", args |-> <<>>]
        /\ result' = out.result
        /\ calls' = out.calls
        /\ ret' = out.ret
        /\ events' = <<>>
        /\ WritePathFrame

\* The protected framer, called directly.
GenerateFillImageWrites(keyIndex, byteBuffer) ==
    /\ ~exited
    /\ op' = [name |-> "generateFillImageWrites", args |-> <<keyIndex, byteBuffer>>]
    /\ result' = "ok"
    /\ calls' = <<>>
    /\ ret' = generateFillImageWrites(keyIndex, byteBuffer)
    /\ events' = <<>>
    /\ WritePathFrame

\* An explicit close() call.
Close(failAt) ==
    LET out == close(failAt)
    IN  /\ ~exited
        /\ closeInvocations < MaxCloses
        /\ closeInvocations' = closeInvocations + 1
        /\ hookRegistered' = FALSE
        /\ deviceClosed' = (deviceClosed \/ ReachedDeviceClose(out))
        /\ closeCalls' = IF ReachedDeviceClose(out) THEN closeCalls + 1 ELSE closeCalls
        /\ op' = [name |-> "close", args |-> <<>>]
        /\ result' = out.result
        /\ calls' = out.calls
        /\ ret' = <<>>
        /\ events' = <<>>
        /\ UNCHANGED <<props, options, keyState, exited>>

\* The process exits: exit-hook runs the registered callback, which calls
\* close() inside try / catch.
ProcessExit(failAt) ==
    LET out == IF hookRegistered THEN close(failAt) ELSE Outcome("ok", <<>>)
    IN  /\ ~exited
        /\ exited' = TRUE
        /\ hookRegistered' = FALSE
        /\ deviceClosed' = (deviceClosed \/ ReachedDeviceClose(out))
        /\ closeCalls' = IF ReachedDeviceClose(out) THEN closeCalls + 1 ELSE closeCalls
        /\ op' = [name |-> "exit", args |-> <<>>]
        /\ result' = "ok"
        /\ calls' = out.calls
        /\ ret' = <<>>
        /\ events' = <<>>
        /\ UNCHANGED <<props, options, keyState, closeInvocations>>

\* The transport delivers one input report to the 'data' handler.
Data(report) ==
    LET st == onData(report)
    IN  /\ ~exited
        /\ ~deviceClosed
        /\ keyState' = st[1]
        /\ events' = st[2]
        /\ op' = [name |-> "data", args |-> <<report>>]
        /\ result' = "ok"
        /\ calls' = <<>>
        /\ ret' = <<>>
        /\ UNCHANGED <<props, options, hookRegistered, deviceClosed, closeCalls,
                       closeInvocations, exited>>

----------------------------------------------------------------------------
(* Initial states *)

DataOffsets == {1, 4}

PropsSet(columns, rows, iconSizes, directions, offsets, payloadSizes) ==
    [COLUMNS : columns, ROWS : rows, ICON_SIZE : iconSizes,
     KEY_DIRECTION : directions, KEY_DATA_OFFSET : offsets,
     PACKET_LENGTH : {getFillImageCommandHeaderLength + m : m \in payloadSizes}]

\* The state the constructor leaves, for a device model and options drawn
\* from the given sets.
Constructed(propsSet, resetOptions) ==
    /\ props \in propsSet
    /\ options \in [resetToLogoOnExit : resetOptions]
    /\ keyState = [k \in 0..(props.COLUMNS * props.ROWS - 1) |-> FALSE]
    /\ hookRegistered = TRUE
    /\ deviceClosed = FALSE
    /\ closeCalls = 0
    /\ closeInvocations = 0
    /\ exited = FALSE
    /\ op = [name |-> "constructor", args |-> <<>>]
    /\ result = "ok"
    /\ ret = <<>>
    /\ calls = <<>>
    /\ events = <<>>

----------------------------------------------------------------------------
(* The packet framer on its own: generateFillImageWrites applied to every  *)
(* native key and payloads of length 0 .. MaxBufferLen.                     *)

InitFramer ==
    Constructed(PropsSet(1..MaxColumns, 1..MaxRows, {1}, {"ltr"}, {1}, 1..MaxPayloadSize),
                {FALSE})

NextFramer ==
    \E keyIndex \in Keys, len \in 0..MaxBufferLen, seed \in Seeds :
        GenerateFillImageWrites(keyIndex, Pattern(len, seed))

SpecFramer == InitFramer /\ [][NextFramer]_vars

----------------------------------------------------------------------------
(* Properties of the packet framer *)

IsFramerCall == op.name = "generateFillImageWrites"
FramedKey == op.args[1]
FramedBytes == op.args[2]
PayloadCapacity == props.PACKET_LENGTH - 16

CeilDiv(a, b) == (a + b - 1) \div b
Max(a, b) == IF a >= b THEN a ELSE b

\* The bytes of a packet after its header.
PayloadSegment(packet) == SubSeq(packet, 17, Len(packet))

Trim(bytes, n) == SubSeq(bytes, 1, Min(n, Len(bytes)))

\* C1: every framer call returns at least one packet, and the number of
\* packets is ceil(max(1, len(payload)) / (P - H)); an empty payload gives
\* one header-only packet.
C1_PacketCountAtLeastOne ==
    IsFramerCall =>
        /\ Len(ret) >= 1
        /\ Len(ret) = CeilDiv(Max(1, Len(FramedBytes)), PayloadCapacity)

\* C2: the payload segments of the returned packets, concatenated in order
\* and trimmed to the payload's length, are the payload.
C2_FramerRoundTrip ==
    IsFramerCall =>
        /\ Len(Flatten([k \in 1..Len(ret) |-> PayloadSegment(ret[k])])) >= Len(FramedBytes)
        /\ Trim(Flatten([k \in 1..Len(ret) |-> PayloadSegment(ret[k])]), Len(FramedBytes))
             = FramedBytes

\* A payload that needs several packets, the last one partly filled.
C2_Witness ==
    /\ IsFramerCall
    /\ Len(ret) >= 3
    /\ Len(FramedBytes) % PayloadCapacity # 0
    /\ \E i \in 1..Len(FramedBytes) : FramedBytes[i] = 0

\* C3: packet k (from 0) carries part index k as a little-endian 16-bit
\* number, has length P and the key byte keyIndex + 1; every packet but the
\* last carries M payload bytes and isLast = 0, the last carries isLast = 1
\* and zeros after the payload's remaining bytes.
C3_PacketLayout ==
    IsFramerCall =>
        \A k \in 1..Len(ret) :
            LET packet == ret[k]
                first == (k - 1) * PayloadCapacity
                rest == Len(FramedBytes) - first
            IN  /\ Len(packet) = props.PACKET_LENGTH
                /\ packet[3] + 256 * packet[4] = k - 1
                /\ packet[6] = FramedKey + 1
                /\ packet[5] = IF k = Len(ret) THEN 1 ELSE 0
                /\ k < Len(ret) =>
                     /\ rest >= PayloadCapacity
                     /\ PayloadSegment(packet)
                          = SubSeq(FramedBytes, first + 1, first + PayloadCapacity)
                /\ k = Len(ret) =>
                     /\ rest \in 1..PayloadCapacity
                     /\ \A j \in 1..PayloadCapacity :
                          j > rest => PayloadSegment(packet)[j] = 0

\* Several packets for a key other than key 0, the last one with a zero tail.
C3_Witness ==
    /\ IsFramerCall
    /\ Len(ret) >= 2
    /\ FramedKey >= 1
    /\ Len(FramedBytes) % PayloadCapacity # 0
    /\ ret[Len(ret)][5] = 1
    /\ ret[1][5] = 0

----------------------------------------------------------------------------
(* The input-report handler on its own *)

\* The byte a pressed key reports: any non-zero value.
PressedByte(i) == IF i % 2 = 0 THEN 1 ELSE 255

\* A report: KEY_DATA_OFFSET header bytes (report id first), n key bytes of
\* which those in pressed are non-zero, and one trailing byte.
Report(n, pressed, trailer) ==
    [i \in 1..props.KEY_DATA_OFFSET |-> IF i = 1 THEN 1 ELSE 0]
      \o [i \in 1..n |-> IF (i - 1) \in pressed THEN PressedByte(i - 1) ELSE 0]
      \o <<trailer>>

Trailers == {0, 7}

\* Reports with all NUM_KEYS key bytes.
FullReports == {Report(NUM_KEYS, pressed, 0) : pressed \in SUBSET Keys}

\* Reports cut short after n key bytes, with all or none of them pressed.
ShortReports ==
    UNION {{Report(n, pressed, t) : pressed \in {{}, 0..(n - 1)}, t \in Trailers} :
             n \in 0..(NUM_KEYS - 1)}

Reports == {<<>>} \cup FullReports \cup ShortReports

\* Single rows of up to MaxColumns keys, and the 2 x 2 grid.
InitInput ==
    Constructed(PropsSet(1..MaxColumns, {1}, {1}, {"ltr", "rtl"}, DataOffsets, {1})
                  \cup PropsSet({2}, {2}, {1}, {"ltr", "rtl"}, DataOffsets, {1}),
                {FALSE})

NextInput == \E report \in Reports : Data(report)

SpecInput == InitInput /\ [][NextInput]_vars

----------------------------------------------------------------------------
(* Properties of the input-report handler *)

\* The pressed bit the raw report carries for native key i: its byte after
\* the header, FALSE when the report has no such byte before its last one.
ReportedBit(report, i) ==
    LET pos == props.KEY_DATA_OFFSET + i + 1
    IN  pos < Len(report) /\ report[pos] # 0

EventsFor(evs, k) == SelectSeq(evs, LAMBDA e : e.keyIndex = k)

\* C4: a report emits exactly one event for each key whose reported bit
\* differs from its stored state (down if now pressed, up if now released),
\* tagged with the key's logical index, none for the other keys, and the
\* same report again emits nothing.
C4_EventsOnlyOnTransition ==
    [][ (op'.name = "data" /\ ~UNCHANGED vars) =>
          LET report == op'.args[1] IN
          /\ \A i \in Keys :
               LET k == transformKeyIndex(i)
                   bit == ReportedBit(report, i)
               IN  /\ bit # keyState[k] =>
                        EventsFor(events', k) =
                          <<[event |-> IF bit THEN "down" ELSE "up", keyIndex |-> k]>>
                   /\ bit = keyState[k] => EventsFor(events', k) = <<>>
                   /\ keyState'[k] = bit
          /\ {events'[j].keyIndex : j \in 1..Len(events')} \subseteq
               {transformKeyIndex(i) : i \in Keys}
          /\ {transformKeyIndex(i) : i \in Keys} = Keys
          /\ (op.name = "data" /\ op.args[1] = report) => events' = <<>>
      ]_vars

\* A report that changed some keys and left a pressed key alone, on a
\* device whose native order differs from the logical one.
C4_Witness ==
    /\ op.name = "data"
    /\ props.KEY_DIRECTION = "rtl"
    /\ props.COLUMNS >= 2
    /\ \E e \in 1..Len(events) : events[e].event = "up"
    /\ \E e \in 1..Len(events) : events[e].event = "down"
    /\ \E k \in Keys : keyState[k] /\ EventsFor(events, k) = <<>>

----------------------------------------------------------------------------
(* The session: every public operation, input reports, close() and the     *)
(* process exit, with one valid input per write operation and a transport  *)
(* that may fail.                                                          *)

FailAts == 0..MaxFailAt

SolidImage == Pattern(ICON_PIXELS * 3, 0)
SolidPanel == Pattern(ICON_PIXELS * 3 * NUM_KEYS, 0)
FeatureResponse == Pattern(17, 254)

\* Reports with no key, the first key, or every key pressed.
SessionReports == {Report(NUM_KEYS, pressed, 0) : pressed \in {{}, {0}, Keys}}

Init ==
    Constructed(PropsSet(1..MaxColumns, 1..MaxRows, {1}, {"ltr", "rtl"}, {1},
                         {MaxPayloadSize}),
                BOOLEAN)

Next ==
    \/ \E keyIndex \in Keys, failAt \in FailAts : FillColor(keyIndex, 255, 0, 17, failAt)
    \/ \E keyIndex \in Keys, failAt \in FailAts : FillImage(keyIndex, SolidImage, "rgb", failAt)
    \/ \E failAt \in FailAts : FillPanel(SolidPanel, "undefined", failAt)
    \/ \E keyIndex \in Keys, failAt \in FailAts : ClearKey(keyIndex, failAt)
    \/ \E failAt \in FailAts : ClearAllKeys(failAt)
    \/ \E failAt \in FailAts : SetBrightness(50, failAt)
    \/ \E failAt \in FailAts : ResetToLogo(failAt)
    \/ \E failAt \in FailAts : GetFirmwareVersion(FeatureResponse, failAt)
    \/ \E failAt \in FailAts : GetSerialNumber(FeatureResponse, failAt)
    \/ \E report \in SessionReports : Data(report)
    \/ \E failAt \in FailAts : Close(failAt)
    \/ \E failAt \in FailAts : ProcessExit(failAt)

Spec == Init /\ [][Next]_vars

----------------------------------------------------------------------------
(* Properties of close() and the session's life cycle *)

OtherOperations ==
    {"fillColor", "fillImage", "fillPanel", "clearKey", "clearAllKeys", "setBrightness",
     "resetToLogo", "getFirmwareVersion", "getSerialNumber"}

\* C5: once the transport has been closed by close(), a later close() call
\* raises no error, sends no feature report and does not invoke the
\* transport's close again.
C5_CloseIdempotent ==
    [][ (deviceClosed /\ op'.name = "close" /\ closeInvocations' = closeInvocations + 1) =>
          /\ result' = "ok"
          /\ calls' = <<>>
          /\ closeCalls' = closeCalls
      ]_vars

\* C6: with resetToLogoOnExit configured, the first close() of an open
\* session closes the transport and raises no error even when sending the
\* reset feature report fails; so does the close() run by the exit hook.
C6_CloseSwallowsResetError ==
    /\ (op.name = "close" /\ closeInvocations = 1 /\ options.resetToLogoOnExit) =>
          (result = "ok" /\ deviceClosed /\ closeCalls = 1)
    /\ (op.name = "exit" /\ closeInvocations = 0 /\ options.resetToLogoOnExit) =>
          (result = "ok" /\ deviceClosed /\ closeCalls = 1)

\* C7: once the session is closed it stays closed, and every operation other
\* than close fails without making any transport call.
C7_ClosedIsTerminal ==
    [][ /\ deviceClosed => deviceClosed'
        /\ (deviceClosed /\ op'.name \in OtherOperations /\ ~UNCHANGED <<op, result, calls, ret>>) =>
              (result' # "ok" /\ calls' = <<>>)
      ]_vars

\* C8: when the process has exited after at most one explicit close() call,
\* the transport's close has been invoked exactly once.
C8_TransportClosedExactlyOnce ==
    (exited /\ closeInvocations <= 1) => (closeCalls = 1 /\ deviceClosed)

----------------------------------------------------------------------------
(* The write path on an open session, with valid and invalid arguments and *)
(* a transport that does not fail.                                         *)

\* Key arguments at and around the limits of the valid range.
KeyArgs == {-1, 0, NUM_KEYS - 1, NUM_KEYS}

ColorArgs ==
    {<<0, 0, 0>>, <<255, 128, 1>>, <<256, 0, 0>>, <<0, 256, 0>>, <<0, 0, 256>>,
     <<-1, 0, 0>>, <<0, -1, 0>>, <<0, 0, -1>>, <<-1, 256, 300>>}

FormatArgs == Formats \cup {"undefined", "xyz"}

WriteSeeds == {254}

ImageLens == {ICON_PIXELS * 3 - 1, ICON_PIXELS * 3, ICON_PIXELS * 4, ICON_PIXELS * 4 + 1}

PanelLens ==
    {ICON_PIXELS * 3 * NUM_KEYS - 1, ICON_PIXELS * 3 * NUM_KEYS, ICON_PIXELS * 3,
     ICON_PIXELS * 4 * NUM_KEYS, ICON_PIXELS * 4 * NUM_KEYS + 1}

PercentageArgs == {-1, 0, 50, 100, 101, 150}

\* Grids up to MaxColumns x MaxRows, and the 5 x 3 grid of 15 keys.
InitWrite ==
    Constructed(PropsSet(1..MaxColumns, 1..MaxRows, 1..MaxIconSize, {"ltr", "rtl"}, {1},
                         {MaxPayloadSize})
                  \cup PropsSet({5}, {3}, {1}, {"ltr", "rtl"}, {1}, {MaxPayloadSize}),
                {FALSE})

NextWrite ==
    \/ \E keyIndex \in KeyArgs, c \in ColorArgs : FillColor(keyIndex, c[1], c[2], c[3], 0)
    \/ \E keyIndex \in KeyArgs, len \in ImageLens, seed \in WriteSeeds, format \in FormatArgs :
          FillImage(keyIndex, Pattern(len, seed), format, 0)
    \/ \E len \in PanelLens, seed \in WriteSeeds, format \in FormatArgs :
          FillPanel(Pattern(len, seed), format, 0)
    \/ \E keyIndex \in KeyArgs : ClearKey(keyIndex, 0)
    \/ ClearAllKeys(0)
    \/ \E percentage \in PercentageArgs : SetBrightness(percentage, 0)

SpecWrite == InitWrite /\ [][NextWrite]_vars

----------------------------------------------------------------------------
(* Properties of argument validation *)

InRange(x, lo, hi) == lo <= x /\ x <= hi

\* C9: fillColor and clearKey with a key index outside [0, NUM_KEYS) fail
\* with InvalidIndex, fillColor with a valid key and a component outside
\* [0, 255] fails with InvalidColorComponent, and in both cases nothing is
\* written to the transport.
C9_FillColorValidatesFirst ==
    /\ op.name \in {"fillColor", "clearKey"} =>
          (~InRange(op.args[1], 0, NUM_KEYS - 1) =>
              (result = "InvalidIndex" /\ calls = <<>>))
    /\ op.name = "fillColor" =>
          ((\E c \in 2..4 : ~InRange(op.args[c], 0, 255)) =>
              /\ calls = <<>>
              /\ result \in {"InvalidIndex", "InvalidColorComponent"}
              /\ InRange(op.args[1], 0, NUM_KEYS - 1) => result = "InvalidColorComponent")

\* fillColor(key, 256, 0, 0) on a valid key was rejected.
C9_Witness ==
    /\ op.name = "fillColor"
    /\ op.args[1] \in Keys
    /\ op.args[2] = 256
    /\ result = "InvalidColorComponent"
    /\ calls = <<>>

\* Bytes per pixel of a format argument; an absent format means rgb.
BytesPerPixel(format) == IF format \in {"rgba", "bgra"} THEN 4 ELSE 3

IsKnownFormatArg(format) == format \in {"rgb", "rgba", "bgr", "bgra", "undefined"}

\* C10: fillImage (on a valid key) and fillPanel fail with UnknownFormat for
\* a format outside the four known ones, and with InvalidImageLength for a
\* buffer whose length is not S*S*bytesPerPixel (times NUM_KEYS for
\* fillPanel); nothing is written to the transport in either case.
C10_FillImageValidatesFirst ==
    /\ op.name = "fillImage" =>
          LET keyIndex == op.args[1]
              imageBuffer == op.args[2]
              format == op.args[3]
              badKey == ~InRange(keyIndex, 0, NUM_KEYS - 1)
              badFormat == ~IsKnownFormatArg(format)
              badLength == Len(imageBuffer) # ICON_SIZE * ICON_SIZE * BytesPerPixel(format)
          IN  /\ (badKey \/ badFormat \/ badLength) => (result # "ok" /\ calls = <<>>)
              /\ (~badKey /\ badFormat) => result = "UnknownFormat"
              /\ (~badKey /\ ~badFormat /\ badLength) => result = "InvalidImageLength"
    /\ op.name = "fillPanel" =>
          LET imageBuffer == op.args[1]
              format == op.args[2]
              badFormat == ~IsKnownFormatArg(format)
              badLength == Len(imageBuffer)
                             # ICON_SIZE * ICON_SIZE * BytesPerPixel(format) * NUM_KEYS
          IN  /\ badFormat => (result = "UnknownFormat" /\ calls = <<>>)
              /\ (~badFormat /\ badLength) => (result = "InvalidImageLength" /\ calls = <<>>)

\* fillImage on a valid key with an rgb buffer one byte short was rejected.
C10_Witness ==
    /\ op.name = "fillImage"
    /\ op.args[1] \in Keys
    /\ op.args[3] = "rgb"
    /\ Len(op.args[2]) = ICON_SIZE * ICON_SIZE * 3 - 1
    /\ result = "InvalidImageLength"
    /\ calls = <<>>

----------------------------------------------------------------------------
(* Properties of the multi-key operations *)

\* The key mapping as the specification states it: row = i / C, col = i % C,
\* native column = col for ltr and C - 1 - col for rtl.
ToNative(i) ==
    LET row == i \div props.COLUMNS
        col == i % props.COLUMNS
        nativeColumn == IF props.KEY_DIRECTION = "ltr" THEN col
                        ELSE props.COLUMNS - 1 - col
    IN  row * props.COLUMNS + nativeColumn

\* The S x S image at grid position (row, col) of a panel image, as a buffer
\* of its own in the same format.
SubImage(panel, format, row, col) ==
    LET iconRowBytes == props.ICON_SIZE * BytesPerPixel(format)
        stride == iconRowBytes * props.COLUMNS
    IN  [i \in 1..(props.ICON_SIZE * iconRowBytes) |->
            LET y == (i - 1) \div iconRowBytes
                xb == (i - 1) % iconRowBytes
            IN  panel[stride * props.ICON_SIZE * row + iconRowBytes * col
                        + y * stride + xb + 1]]

KeyByte(c) == c.data[6]
PartIndex(c) == c.data[3] + 256 * c.data[4]
IsLast(c) == c.data[5] = 1

LastPackets(cs) == SelectSeq(cs, IsLast)

\* C11: a successful fillPanel writes what fillImage writes for logical keys
\* 0, 1, ..., NUM_KEYS - 1 on the sub-images at their grid positions; every
\* native key is filled once, key row*C + col through ToNative.
C11_FillPanelIsFillImagePerKey ==
    (op.name = "fillPanel" /\ result = "ok") =>
        LET panel == op.args[1]
            format == op.args[2]
            perKey == [n \in 1..NUM_KEYS |->
                         fillImage(n - 1,
                                   SubImage(panel, format, (n - 1) \div props.COLUMNS,
                                            (n - 1) % props.COLUMNS),
                                   format, 0, 0).calls]
        IN  /\ calls = Flatten(perKey)
            /\ Len(LastPackets(calls)) = NUM_KEYS
            /\ \A n \in 1..NUM_KEYS : KeyByte(LastPackets(calls)[n]) = ToNative(n - 1) + 1

\* A panel of several rows and columns of 4-byte pixels on an rtl device.
C11_Witness ==
    /\ op.name = "fillPanel"
    /\ result = "ok"
    /\ props.KEY_DIRECTION = "rtl"
    /\ props.COLUMNS >= 2
    /\ props.ROWS >= 2
    /\ props.ICON_SIZE >= 2
    /\ op.args[2] = "bgra"
    /\ calls # <<>>

\* C12: clearAllKeys performs fillColor(key, 0, 0, 0) for the logical keys
\* 0, 1, ..., NUM_KEYS - 1 in this order, each key once: NUM_KEYS key fills,
\* the n-th for the native key of logical key n, all of black pixels.
C12_ClearAllKeysAscending ==
    (op.name = "clearAllKeys" /\ result = "ok") =>
        /\ calls = Flatten([n \in 1..NUM_KEYS |-> fillColor(n - 1, 0, 0, 0, 0, 0).calls])
        /\ Len(LastPackets(calls)) = NUM_KEYS
        /\ \A n \in 1..NUM_KEYS : KeyByte(LastPackets(calls)[n]) = ToNative(n - 1) + 1
        /\ \A j \in 1..Len(calls) :
             /\ calls[j].call = "write"
             /\ \A b \in 1..Len(PayloadSegment(calls[j].data)) :
                  PayloadSegment(calls[j].data)[b] = 0

\* clearAllKeys on the 15-key rtl device.
C12_Witness ==
    /\ op.name = "clearAllKeys"
    /\ result = "ok"
    /\ NUM_KEYS = 15
    /\ props.KEY_DIRECTION = "rtl"
    /\ Len(LastPackets(calls)) = 15

----------------------------------------------------------------------------
(* Properties of setBrightness *)

\* C13: setBrightness with a percentage outside [0, 100] fails with
\* InvalidRange and sends nothing; otherwise it sends one feature report of
\* 17 bytes, 0x05 0x55 0xAA 0xD1 0x01, the percentage, and eleven zeros.
C13_SetBrightnessReport ==
    op.name = "setBrightness" =>
        LET percentage == op.args[1]
        IN  /\ ~InRange(percentage, 0, 100) => (result = "InvalidRange" /\ calls = <<>>)
            /\ InRange(percentage, 0, 100) =>
                 /\ result = "ok"
                 /\ Len(calls) = 1
                 /\ calls[1].call = "sendFeatureReport"
                 /\ Len(calls[1].data) = 17
                 /\ calls[1].data[6] = percentage
                 /\ calls[1].data =
                      <<5, 85, 170, 209, 1, percentage, 0, 0, 0, 0, 0, 0, 0, 0, 0, 0, 0>>

\* setBrightness(50) sent its report.
C13_Witness ==
    /\ op.name = "setBrightness"
    /\ op.args[1] = 50
    /\ result = "ok"
    /\ Len(calls) = 1

----------------------------------------------------------------------------
(* Properties of the key index transformer *)

ToLogical(native) == CHOOSE k \in Keys : ToNative(k) = native

\* C14: transformKeyIndex is the stated mapping, a bijection on
\* [0, NUM_KEYS) and its own inverse, so the write path reaches the native
\* key of a logical key and the read path tags an event with the logical key
\* of the native byte it came from.
C14_TransformIsInvolution ==
    /\ \A i \in Keys :
         /\ transformKeyIndex(i) = ToNative(i)
         /\ transformKeyIndex(i) \in Keys
         /\ transformKeyIndex(transformKeyIndex(i)) = i
         /\ ToNative(ToLogical(ToNative(i))) = ToNative(i)
    /\ \A i, j \in Keys : transformKeyIndex(i) = transformKeyIndex(j) => i = j
    /\ {transformKeyIndex(i) : i \in Keys} = Keys
    /\ (op.name = "fillColor" /\ result = "ok") =>
         \A j \in 1..Len(calls) : KeyByte(calls[j]) = ToNative(op.args[1]) + 1
    /\ op.name = "data" =>
         \A j \in 1..Len(events) :
            ReportedBit(op.args[1], ToNative(events[j].keyIndex))
              = (events[j].event = "down")

\* On an rtl device an event was tagged with a logical index that differs
\* from the native index of the byte it came from.
C14_Witness ==
    /\ props.KEY_DIRECTION = "rtl"
    /\ props.COLUMNS >= 2
    /\ op.name = "data"
    /\ \E j \in 1..Len(events) :
         /\ events[j].event = "down"
         /\ ToNative(events[j].keyIndex) # events[j].keyIndex

----------------------------------------------------------------------------
(* Properties of the order of steps in close() *)

ResetReportCall ==
    [call |-> "sendFeatureReport",
     data |-> <<11, 99, 0, 0, 0, 0, 0, 0, 0, 0, 0, 0, 0, 0, 0, 0, 0>>]

TransportCloseCall == [call |-> "close", data |-> <<>>]

\* C15: the first close() of an open session releases the exit hook, then
\* sends the reset report if and only if resetToLogoOnExit is set, then
\* closes the transport; without resetToLogoOnExit it sends no feature report.
C15_CloseStepOrder ==
    (op.name = "close" /\ closeInvocations = 1) =>
        /\ ~hookRegistered
        /\ deviceClosed
        /\ options.resetToLogoOnExit =>
             calls = <<ResetReportCall, TransportCloseCall>>
        /\ ~options.resetToLogoOnExit =>
             calls = <<TransportCloseCall>>

----------------------------------------------------------------------------
(* Properties of the order and alternation of key events *)

\* The native key whose report byte produces the events of logical key k.
NativeOf(k) == CHOOSE i \in Keys : ToNative(i) = k

\* C16: the events of one report are in ascending order of the native index
\* of their keys.
C16_EventsInNativeOrder ==
    op.name = "data" =>
        \A a, b \in 1..Len(events) :
            a < b => NativeOf(events[a].keyIndex) < NativeOf(events[b].keyIndex)

\* A report on an rtl device whose events are in descending logical order.
C16_Witness ==
    /\ op.name = "data"
    /\ props.KEY_DIRECTION = "rtl"
    /\ Len(events) >= 2
    /\ events[1].keyIndex > events[2].keyIndex
    /\ events[1].event # events[2].event

----------------------------------------------------------------------------
(* Properties of the independence of the write path from KeyState *)

\* The image bytes carried by the packets of one key fill.
CarriedImage(cs) ==
    Trim(Flatten([j \in 1..Len(cs) |-> PayloadSegment(cs[j].data)]),
         props.ICON_SIZE * props.ICON_SIZE * 3)

SolidColor(r, g, b) ==
    [i \in 1..(props.ICON_SIZE * props.ICON_SIZE * 3) |-> <<r, g, b>>[((i - 1) % 3) + 1]]

\* C17: no operation of the write path changes keyState, and what a
\* successful write operation hands to the transport is determined by its
\* arguments and the device properties alone, whatever keys are pressed.
C17_WritePathLeavesKeyState ==
    [][ op'.name \in OtherOperations =>
          /\ keyState' = keyState
          /\ (op'.name \in {"fillColor", "clearKey", "fillImage"} /\ result' = "ok") =>
               /\ Len(calls') = CeilDiv(props.ICON_SIZE * props.ICON_SIZE * 3, PayloadCapacity)
               /\ \A j \in 1..Len(calls') : KeyByte(calls'[j]) = ToNative(op'.args[1]) + 1
               /\ CarriedImage(calls') =
                    CASE op'.name = "fillColor" ->
                           SolidColor(op'.args[2], op'.args[3], op'.args[4])
                      [] op'.name = "clearKey" -> SolidColor(0, 0, 0)
                      [] op'.name = "fillImage" -> op'.args[2]
          /\ (op'.name = "setBrightness" /\ result' = "ok") =>
               calls' = <<[call |-> "sendFeatureReport",
                           data |-> <<5, 85, 170, 209, 1, op'.args[1],
                                      0, 0, 0, 0, 0, 0, 0, 0, 0, 0, 0>>]>>
          /\ (op'.name = "resetToLogo" /\ result' = "ok") => calls' = <<ResetReportCall>>
      ]_vars

\* A key fill succeeded while a key was held down.
C17_Witness ==
    /\ op.name = "fillColor"
    /\ result = "ok"
    /\ calls # <<>>
    /\ \E k \in Keys : keyState[k]
    /\ \E k \in Keys : ~keyState[k]

\* C18: for each key the events alternate down, up, down, ... from the
\* all-released initial state, and the stored state of a key is pressed
\* exactly when its last event was down.  Stated step by step: all keys start
\* released; a report emits at most one event per key; a down is emitted only
\* for a key stored as released and leaves it pressed, an up only for a key
\* stored as pressed and leaves it released; a key without an event keeps its
\* stored state.
C18_EventsAlternate ==
    /\ (op.name = "constructor" => \A k \in Keys : ~keyState[k])
    /\ [][ \A k \in Keys :
             LET evs == EventsFor(events', k)
             IN  IF op'.name = "data"
                 THEN /\ Len(evs) <= 1
                      /\ evs # <<>> =>
                           /\ (evs[1].event = "down") = ~keyState[k]
                           /\ (evs[1].event = "up") = keyState[k]
                           /\ keyState'[k] = (evs[1].event = "down")
                      /\ evs = <<>> => keyState'[k] = keyState[k]
                 ELSE evs = <<>> /\ keyState'[k] = keyState[k]
         ]_vars

\* One report released a key that an earlier report had pressed, and
\* pressed another.
C18_Witness ==
    /\ op.name = "data"
    /\ \E a, b \in 1..Len(events) :
         /\ events[a].event = "up"
         /\ events[b].event = "down"
         /\ ~keyState[events[a].keyIndex]
         /\ keyState[events[b].keyIndex]

----------------------------------------------------------------------------
(* Properties of short input reports *)

\* The number of key bytes a report carries between its header and its
\* trailing byte.
KeyBytes(report) == Max(0, Len(report) - 1 - props.KEY_DATA_OFFSET)

\* C20: a report with fewer than NUM_KEYS key bytes is processed, not
\* rejected; every key whose byte is missing ends released, with an up event
\* exactly when it was pressed.
C20_MissingBytesAreReleased ==
    [][ (op'.name = "data" /\ KeyBytes(op'.args[1]) < NUM_KEYS) =>
          /\ result' = "ok"
          /\ \A i \in Keys :
               i >= KeyBytes(op'.args[1]) =>
                 LET k == ToNative(i)
                 IN  /\ ~keyState'[k]
                     /\ keyState[k] =>
                          EventsFor(events', k) = <<[event |-> "up", keyIndex |-> k]>>
                     /\ ~keyState[k] => EventsFor(events', k) = <<>>
      ]_vars

\* A short report with a non-zero trailing byte released a pressed key whose
\* byte was missing.
C20_Witness ==
    /\ op.name = "data"
    /\ KeyBytes(op.args[1]) < NUM_KEYS
    /\ op.args[1] # <<>>
    /\ op.args[1][Len(op.args[1])] # 0
    /\ \E j \in 1..Len(events) :
         /\ events[j].event = "up"
         /\ NativeOf(events[j].keyIndex) >= KeyBytes(op.args[1])

----------------------------------------------------------------------------
(* Properties of the packet stream of multi-key operations *)

\* C19: in the writes of fillPanel and clearAllKeys the packets of a key are
\* contiguous: a key's packets start at part 0, continue with the same key
\* byte and the next part index up to the key's isLast packet, and only then
\* does another key start; no key starts twice.
C19_KeyPacketsContiguous ==
    op.name \in {"fillPanel", "clearAllKeys"} =>
        /\ \A j \in 1..Len(calls) :
             /\ calls[j].call = "write"
             /\ (j = 1 \/ (j > 1 /\ IsLast(calls[j - 1]))) => PartIndex(calls[j]) = 0
             /\ (j > 1 /\ ~IsLast(calls[j - 1])) =>
                  /\ KeyByte(calls[j]) = KeyByte(calls[j - 1])
                  /\ PartIndex(calls[j]) = PartIndex(calls[j - 1]) + 1
             /\ PartIndex(calls[j]) = 0 =>
                  \A i \in 1..(j - 1) : KeyByte(calls[i]) # KeyByte(calls[j])
        /\ (result = "ok" /\ calls # <<>>) => IsLast(calls[Len(calls)])

\* A panel fill of several keys with more than two packets per key.
C19_Witness ==
    /\ op.name = "fillPanel"
    /\ result = "ok"
    /\ Len(LastPackets(calls)) >= 2
    /\ \E j \in 1..Len(calls) : PartIndex(calls[j]) >= 2 /\ ~IsLast(calls[j])

====
